---- MODULE Spec2Model ----
(***************************************************************************)
(* State-machine model of the drawIT whiteboard: the DrawingProvider       *)
(* context (element list, snapshot history, cursor), the Canvas pointer    *)
(* handlers, the Toolbar (tool selection, undo/redo, image upload) and the *)
(* text editor popup.                                                      *)
(*                                                                         *)
(* Every React event handler is one action: the handler runs against the   *)
(* state committed by the previous event, its state updates are batched    *)
(* and committed before the next event is dispatched.  The one closure     *)
(* that outlives a render is the image-load callback created by            *)
(* uploadImage: it keeps the addElement (and so the historyIndex), colour  *)
(* and stroke width of the render in which the upload was started.         *)
(***************************************************************************)
EXTENDS Integers, Sequences, FiniteSets, TLC

(***************************************************************************)
(* Bounds of the model.                                                    *)
(***************************************************************************)
\* events (user input, callbacks) explored from the initial state
MaxEvents == 9
\* events explored with calls of the context's deleteElement and updateElement
\* among them
MaxApiEvents == 8
\* events explored by the narrow specification of the upload race
MaxRaceEvents == 13
\* events explored by the specification of hit testing and arranging
MaxHitEvents == 8
\* events explored by the specification of the text editor
MaxTextEvents == 13
\* events explored by the specification of image uploads
MaxUploadEvents == 10

\* Date.now() when the page is loaded, in milliseconds
Epoch == 1000
\* width of one character as the 2D context measures it, in pixels
CharWidth == 8

(***************************************************************************)
(* Program constants.                                                      *)
(***************************************************************************)
DoubleClickMs == 300
ImageX == 100
ImageY == 100
MaxImageSize == 300
DefaultFontSize == 16
PenHitRadius == 10
DefaultStrokeWidth == 2

ShapeTools == {"rectangle", "circle", "triangle", "diamond", "hexagon", "star"}
Tool == {"select", "pen", "arrow", "text", "image", "eraser", "fill"} \cup ShapeTools
DrawableTypes == {"pen", "arrow", "text", "image"} \cup ShapeTools

(***************************************************************************)
(* Inputs of the environment.                                              *)
(***************************************************************************)
Pt(px, py) == [x |-> px, y |-> py]
Points == {Pt(10, 10), Pt(110, 110)}
ToolChoices == {"select", "rectangle", "text", "eraser", "fill", "image"}
File(n, w, h) == [name |-> n, width |-> w, height |-> h]
Files == {File("a.png", 200, 400), File("b.png", 400, 200)}
Texts == {<<" ">>, <<"h", "i">>}
\* milliseconds between the previous event and a mouse-down (a quick or a
\* slow click), another user event, and an image-load callback (which can run
\* within the millisecond of the previous event)
ClickSteps == {1, DoubleClickMs}
UserSteps == {1}
CallbackSteps == {0, 1}

(***************************************************************************)
(* Optional values: an absent (undefined) field is None.                   *)
(***************************************************************************)
None == <<>>
Some(v) == <<v>>
IsSome(o) == o # <<>>
Get(o) == o[1]

Min(a, b) == IF a < b THEN a ELSE b
Range(q) == {q[i] : i \in DOMAIN q}

(***************************************************************************)
(* DrawingElement records.  Every field of the interface is present in the *)
(* record; a field the object literal does not set is None.                *)
(***************************************************************************)
NoFields ==
  [width |-> None, height |-> None, points |-> None, text |-> None,
   fontSize |-> None, fontFamily |-> None, imageData |-> None,
   imageElement |-> None, fillColor |-> None, filled |-> None, erased |-> None]

\* the id read from the millisecond clock
newId(t) == ToString(t)

\* { ...el, ...updates }
spread(el, updates) ==
  [f \in DOMAIN el \cup DOMAIN updates |->
     IF f \in DOMAIN updates THEN updates[f] ELSE el[f]]

\* the element handleMouseUp builds
drawnElement(t, tool, start, coords, path, color, strokeWidth, filledFlag, fillColor) ==
  spread(NoFields,
    [id |-> newId(t), type |-> tool, x |-> start.x, y |-> start.y,
     width |-> Some(coords.x - start.x), height |-> Some(coords.y - start.y),
     points |-> IF tool = "pen" THEN Some(path) ELSE None,
     color |-> color, strokeWidth |-> strokeWidth,
     fillColor |-> IF filledFlag THEN Some(fillColor) ELSE None,
     filled |-> Some(filledFlag)])

\* the element handleTextSubmit builds
textElement(t, pos, text, color, strokeWidth) ==
  spread(NoFields,
    [id |-> newId(t), type |-> "text", x |-> pos.x, y |-> pos.y,
     text |-> Some(text), color |-> color, strokeWidth |-> strokeWidth,
     fontSize |-> Some(DefaultFontSize), fontFamily |-> Some("Arial")])

\* an image element that is cut to a square as soon as one side is too long
imageElementSquare(t, file, color, strokeWidth) ==
  spread(NoFields,
    [id |-> newId(t), type |-> "image", x |-> ImageX, y |-> ImageY,
     width |-> Some(IF file.width > MaxImageSize \/ file.height > MaxImageSize
                    THEN MaxImageSize ELSE file.width),
     height |-> Some(IF file.width > MaxImageSize \/ file.height > MaxImageSize
                     THEN MaxImageSize ELSE file.height),
     imageData |-> Some(file.name),
     imageElement |-> Some([width |-> file.width, height |-> file.height]),
     color |-> color, strokeWidth |-> strokeWidth])

\* the element the image-load callback of uploadImage builds
imageElementOf(t, file, color, strokeWidth) ==
  spread(NoFields,
    [id |-> newId(t), type |-> "image", x |-> ImageX, y |-> ImageY,
     width |-> Some(IF file.width > MaxImageSize THEN MaxImageSize ELSE file.width),
     height |-> Some(IF file.height > MaxImageSize THEN MaxImageSize ELSE file.height),
     imageData |-> Some(file.name),
     imageElement |-> Some([width |-> file.width, height |-> file.height]),
     color |-> color, strokeWidth |-> strokeWidth])

(***************************************************************************)
(* The list operations of DrawingProvider, as functions of the previous    *)
(* state and of the historyIndex held by the callback's closure.           *)
(***************************************************************************)
\* a history that merges: a list equal to the snapshot under the cursor is
\* not recorded again
pushSnapshotMerging(prevHistory, idx, newElements) ==
  IF idx + 1 \in DOMAIN prevHistory /\ prevHistory[idx + 1] = newElements
  THEN SubSeq(prevHistory, 1, idx + 1)
  ELSE Append(SubSeq(prevHistory, 1, IF idx + 1 < Len(prevHistory)
                                     THEN idx + 1 ELSE Len(prevHistory)),
              newElements)

\* prevHistory.slice(0, historyIndex + 1) followed by push(newElements)
pushSnapshot(prevHistory, idx, newElements) ==
  Append(SubSeq(prevHistory, 1, Min(idx + 1, Len(prevHistory))), newElements)

\* [...prev, element]
appended(prev, element) == Append(prev, element)

\* a map that applies the updates to every element, whatever its id
updatedAll(prev, id, updates) ==
  [i \in DOMAIN prev |-> [f \in DOMAIN prev[i] \cup DOMAIN updates |->
     IF f \in DOMAIN updates THEN updates[f] ELSE prev[i][f]]]

\* prev.map(el => el.id === id ? { ...el, ...updates } : el)
RECURSIVE updated(_, _, _)
updated(prev, id, updates) ==
  IF prev = <<>> THEN <<>>
  ELSE <<IF Head(prev).id = id THEN spread(Head(prev), updates) ELSE Head(prev)>>
         \o updated(Tail(prev), id, updates)

\* a filter that removes only the first element with the id
RECURSIVE removedFirst(_, _)
removedFirst(prev, id) ==
  IF prev = <<>> THEN <<>>
  ELSE IF Head(prev).id # id
       THEN <<Head(prev)>> \o removedFirst(Tail(prev), id)
       ELSE Tail(prev)

\* prev.filter(el => el.id !== id)
RECURSIVE removed(_, _)
removed(prev, id) ==
  IF prev = <<>> THEN <<>>
  ELSE IF Head(prev).id # id
       THEN <<Head(prev)>> \o removed(Tail(prev), id)
       ELSE removed(Tail(prev), id)

\* history[i] of the JavaScript array: None stands for undefined
snapshotAt(h, i) == IF i + 1 \in DOMAIN h THEN Some(h[i + 1]) ELSE None

\* elements.find(el => el.id === id): its index, 0 when there is none
RECURSIVE findFrom(_, _, _)
findFrom(els, i, id) ==
  IF i > Len(els) THEN 0
  ELSE IF els[i].id = id THEN i ELSE findFrom(els, i + 1, id)
find(els, id) == findFrom(els, 1, id)

(***************************************************************************)
(* Text helpers: a text is a sequence of characters.                       *)
(***************************************************************************)
Whitespace == {" ", "\n", "\t"}

RECURSIVE trimStart(_)
trimStart(t) ==
  IF t # <<>> /\ Head(t) \in Whitespace THEN trimStart(Tail(t)) ELSE t

RECURSIVE trimEnd(_)
trimEnd(t) ==
  IF t # <<>> /\ t[Len(t)] \in Whitespace THEN trimEnd(SubSeq(t, 1, Len(t) - 1)) ELSE t

\* a text taken as it was typed
untrimmed(t) == t

trim(t) == trimEnd(trimStart(t))

\* text.split('\n'): the lengths of the lines
lineBreaks(t) == {0, Len(t) + 1} \cup {i \in DOMAIN t : t[i] = "\n"}
lineLengths(t) ==
  {c - b - 1 : <<b, c>> \in
     {bc \in lineBreaks(t) \X lineBreaks(t) :
        /\ bc[1] < bc[2]
        /\ ~\E m \in lineBreaks(t) : bc[1] < m /\ m < bc[2]}}
lineCount(t) == Cardinality(lineBreaks(t)) - 1
maxLineLength(t) == CHOOSE n \in lineLengths(t) : \A m \in lineLengths(t) : m <= n

(***************************************************************************)
(* Hit testing.                                                            *)
(***************************************************************************)
isErased(el) == IsSome(el.erased) /\ Get(el.erased)

\* element.width && element.height
hasExtent(el) ==
  /\ IsSome(el.width) /\ Get(el.width) # 0
  /\ IsSome(el.height) /\ Get(el.height) # 0

fontSizeOf(el) == IF IsSome(el.fontSize) /\ Get(el.fontSize) # 0
                  THEN Get(el.fontSize) ELSE DefaultFontSize

\* the three branches of the loop body of getElementAtPosition; lineHeight is
\* fontSize * 1.2, so the vertical comparison is made in tenths
hitsElement(el, x, y) ==
  IF el.type = "text" /\ IsSome(el.text) /\ Get(el.text) # <<>>
  THEN /\ x >= el.x
       /\ x <= el.x + CharWidth * maxLineLength(Get(el.text))
       /\ y >= el.y
       /\ 10 * y <= 10 * el.y + 12 * fontSizeOf(el) * lineCount(Get(el.text))
  ELSE IF el.type = "pen" /\ IsSome(el.points)
  THEN \E i \in DOMAIN Get(el.points) :
         (x - Get(el.points)[i].x) * (x - Get(el.points)[i].x)
           + (y - Get(el.points)[i].y) * (y - Get(el.points)[i].y)
           < PenHitRadius * PenHitRadius
  ELSE IF hasExtent(el)
  THEN /\ x >= el.x /\ x <= el.x + Get(el.width)
       /\ y >= el.y /\ y <= el.y + Get(el.height)
  ELSE FALSE

\* the loop of getElementAtPosition, from the last element down: the index of
\* the element returned, 0 for null
RECURSIVE scanFrom(_, _, _, _)
scanFrom(els, i, x, y) ==
  IF i < 1 THEN 0
  ELSE IF ~isErased(els[i]) /\ hitsElement(els[i], x, y) THEN i
  ELSE scanFrom(els, i - 1, x, y)

getElementAtPosition(els, x, y) == scanFrom(els, Len(els), x, y)

VARIABLES
  \* DrawingProvider
  currentTool, elements, history, historyIndex, selectedElement,
  currentColor, currentFillColor, isFilled, currentStrokeWidth,
  \* Canvas
  isDrawing, startPoint, currentPath, isDragging, dragOffset,
  isEditingText, textPosition, editingTextId, lastClickTime,
  \* uploads started whose image-load callback is pending
  uploads,
  \* environment: the time of the latest event, the mouse button, the
  \* native file picker, the file held by the file input, and the tree
  \* unmounted by a render error
  now, buttonDown, pickerOpen, inputFile, crashed,
  \* the number of events handled so far, and how many are explored
  events, budget

ctxVars == <<currentTool, elements, history, historyIndex, selectedElement,
             currentColor, currentFillColor, isFilled, currentStrokeWidth>>
listVars == <<elements, history, historyIndex>>
styleVars == <<currentColor, currentFillColor, isFilled, currentStrokeWidth>>
gestureVars == <<isDrawing, startPoint, currentPath, isDragging, dragOffset>>
textVars == <<isEditingText, textPosition, editingTextId>>
canvasVars == <<isDrawing, startPoint, currentPath, isDragging, dragOffset,
                isEditingText, textPosition, editingTextId, lastClickTime>>
vars == <<currentTool, elements, history, historyIndex, selectedElement,
          currentColor, currentFillColor, isFilled, currentStrokeWidth,
          isDrawing, startPoint, currentPath, isDragging, dragOffset,
          isEditingText, textPosition, editingTextId, lastClickTime,
          uploads, now, buttonDown, pickerOpen, inputFile, crashed, events,
          budget>>

\* the state after DrawingProvider, Canvas and Toolbar are mounted
Mounted ==
  /\ currentTool = "select"
  /\ elements = <<>>
  /\ history = << <<>> >>
  /\ historyIndex = 0
  /\ selectedElement = None
  /\ currentColor = "#000000"
  /\ currentFillColor = "#ffffff"
  /\ isFilled = FALSE
  /\ currentStrokeWidth = DefaultStrokeWidth
  /\ isDrawing = FALSE
  /\ startPoint = None
  /\ currentPath = <<>>
  /\ isDragging = FALSE
  /\ dragOffset = Pt(0, 0)
  /\ isEditingText = FALSE
  /\ textPosition = Pt(0, 0)
  /\ editingTextId = None
  /\ lastClickTime = 0
  /\ uploads = <<>>
  /\ now = Epoch
  /\ buttonDown = FALSE
  /\ pickerOpen = FALSE
  /\ inputFile = None
  /\ crashed = FALSE
  /\ events = 0

Init == Mounted /\ budget = MaxEvents

\* one more event is handled
countEvent == events < budget /\ events' = events + 1 /\ budget' = budget

\* the event happens at time t, which is what Date.now() returns in its
\* handler; now is the time of the latest event
atTime(t) == t >= now /\ now' = t

\* a user event that reads no clock: time has passed since the previous event
timePasses == now' = now + 1

(***************************************************************************)
(* DrawingProvider.                                                        *)
(***************************************************************************)
canUndo == historyIndex > 0
canRedo == historyIndex < Len(history) - 1

\* the three setState calls shared by addElement, updateElement and
\* deleteElement; idx is the historyIndex of the closure that runs
commit(newElements, idx) ==
  /\ elements' = newElements
  /\ history' = pushSnapshot(history, idx, newElements)
  /\ historyIndex' = historyIndex + 1

addElement(element, idx) == commit(appended(elements, element), idx)

updateElement(id, updates) == commit(updated(elements, id, updates), historyIndex)

deleteElement(id) ==
  /\ ~crashed
  /\ countEvent
  /\ UNCHANGED inputFile
  /\ commit(removed(elements, id), historyIndex)
  /\ selectedElement' = None
  /\ timePasses
  /\ UNCHANGED <<currentTool, styleVars, canvasVars, uploads, buttonDown,
                 pickerOpen, crashed>>

\* updateElement called by a consumer of the context
updateElementCalled(id, updates) ==
  /\ ~crashed
  /\ countEvent
  /\ UNCHANGED inputFile
  /\ updateElement(id, updates)
  /\ timePasses
  /\ UNCHANGED <<currentTool, selectedElement, styleVars, canvasVars, uploads,
                 buttonDown, pickerOpen, crashed>>

\* the list state; elements is None when it is undefined
listState ==
  [elements |-> Some(elements), history |-> history, historyIndex |-> historyIndex]

\* an undo that moves the cursor and leaves the live list as it is
afterUndoKeepingList(s) ==
  IF s.historyIndex > 0
  THEN [elements |-> s.elements,
        history |-> s.history,
        historyIndex |-> s.historyIndex - 1]
  ELSE s

\* undo and redo as functions of the list state of the render that made them
afterUndo(s) ==
  IF s.historyIndex > 0
  THEN [elements |-> snapshotAt(s.history, s.historyIndex - 1),
        history |-> s.history,
        historyIndex |-> s.historyIndex - 1]
  ELSE s

afterRedo(s) ==
  IF s.historyIndex < Len(s.history) - 1
  THEN [elements |-> snapshotAt(s.history, s.historyIndex + 1),
        history |-> s.history,
        historyIndex |-> s.historyIndex + 1]
  ELSE s

\* the list state becomes s; when s.elements is undefined the next render
\* throws on it (elements.forEach, elements.find), which unmounts the tree
setListState(s) ==
  /\ historyIndex' = s.historyIndex
  /\ history' = s.history
  /\ IF IsSome(s.elements)
     THEN elements' = Get(s.elements) /\ crashed' = crashed
     ELSE elements' = elements /\ crashed' = TRUE

undo ==
  /\ ~crashed /\ ~buttonDown /\ ~pickerOpen
  /\ countEvent
  /\ UNCHANGED inputFile
  /\ setListState(afterUndo(listState))
  /\ timePasses
  /\ UNCHANGED <<currentTool, selectedElement, styleVars, canvasVars,
                 uploads, buttonDown, pickerOpen>>

redo ==
  /\ ~crashed /\ ~buttonDown /\ ~pickerOpen
  /\ countEvent
  /\ UNCHANGED inputFile
  /\ setListState(afterRedo(listState))
  /\ timePasses
  /\ UNCHANGED <<currentTool, selectedElement, styleVars, canvasVars,
                 uploads, buttonDown, pickerOpen>>

\* uploadImage(file): the reader and the image load later; the callback keeps
\* this render's addElement, currentColor and currentStrokeWidth
uploadImage(file) ==
  uploads' = Append(uploads, [file |-> file, historyIndex |-> historyIndex,
                              color |-> currentColor,
                              strokeWidth |-> currentStrokeWidth])

dropAt(q, k) == SubSeq(q, 1, k - 1) \o SubSeq(q, k + 1, Len(q))

\* img.onload of the k-th pending upload; Date.now() returns t
imageLoaded(k, t) ==
  /\ ~crashed
  /\ countEvent
  /\ UNCHANGED inputFile
  /\ k \in DOMAIN uploads
  /\ atTime(t)
  /\ addElement(imageElementOf(t, uploads[k].file, uploads[k].color,
                               uploads[k].strokeWidth),
                uploads[k].historyIndex)
  /\ uploads' = dropAt(uploads, k)
  /\ UNCHANGED <<currentTool, selectedElement, styleVars, canvasVars,
                 buttonDown, pickerOpen, crashed>>

(***************************************************************************)
(* Toolbar.                                                                *)
(***************************************************************************)
handleToolSelect(tool) ==
  /\ ~crashed /\ ~buttonDown /\ ~pickerOpen
  /\ countEvent
  /\ UNCHANGED inputFile
  /\ currentTool' = tool
  /\ pickerOpen' = (tool = "image")
  /\ timePasses
  /\ UNCHANGED <<listVars, selectedElement, styleVars, canvasVars, uploads,
                 buttonDown, crashed>>

\* the change event of the file input: a file other than the one the input
\* holds was chosen (choosing the same file again changes nothing)
handleImageUpload(file) ==
  /\ ~crashed /\ pickerOpen
  /\ countEvent
  /\ Some(file) # inputFile
  /\ inputFile' = Some(file)
  /\ uploadImage(file)
  /\ currentTool' = "select"
  /\ pickerOpen' = FALSE
  /\ timePasses
  /\ UNCHANGED <<listVars, selectedElement, styleVars, canvasVars,
                 buttonDown, crashed>>

\* the picker is dismissed: uploadImage is not called; whether the input
\* keeps its file depends on the browser
dismissPicker ==
  /\ ~crashed /\ pickerOpen
  /\ countEvent
  /\ inputFile' \in {inputFile, None}
  /\ pickerOpen' = FALSE
  /\ timePasses
  /\ UNCHANGED <<ctxVars, canvasVars, uploads, buttonDown, crashed>>

(***************************************************************************)
(* Canvas.                                                                 *)
(***************************************************************************)
eraseAtPosition(x, y) ==
  IF getElementAtPosition(elements, x, y) # 0
  THEN updateElement(elements[getElementAtPosition(elements, x, y)].id,
                     [erased |-> Some(TRUE)])
  ELSE UNCHANGED listVars

\* while it is mounted the editor is centred on textPosition, above the
\* canvas: mouse events at that point go to the editor, not to the canvas
coveredByEditor(p) == isEditingText /\ p = textPosition

\* mouse button pressed on the canvas at coords; Date.now() returns t
handleMouseDown(coords, t) ==
  /\ ~crashed /\ ~buttonDown /\ ~pickerOpen
  /\ ~coveredByEditor(coords)
  /\ countEvent
  /\ UNCHANGED inputFile
  /\ atTime(t)
  /\ buttonDown' = TRUE
  /\ LET currentTime == t
         clicked == getElementAtPosition(elements, coords.x, coords.y)
     IN
     IF currentTool = "text"
     THEN /\ textPosition' = coords
          /\ isEditingText' = TRUE
          /\ editingTextId' = None
          /\ UNCHANGED <<listVars, selectedElement, gestureVars, lastClickTime>>
     ELSE IF currentTool = "select"
     THEN IF clicked # 0
          THEN IF elements[clicked].type = "text"
                  /\ currentTime - lastClickTime < DoubleClickMs
               THEN /\ textPosition' = Pt(elements[clicked].x, elements[clicked].y)
                    /\ isEditingText' = TRUE
                    /\ editingTextId' = Some(elements[clicked].id)
                    /\ lastClickTime' = 0
                    /\ UNCHANGED <<listVars, selectedElement, gestureVars>>
               ELSE /\ selectedElement' = Some(elements[clicked].id)
                    /\ isDragging' = TRUE
                    /\ dragOffset' = Pt(coords.x - elements[clicked].x,
                                        coords.y - elements[clicked].y)
                    /\ lastClickTime' = currentTime
                    /\ UNCHANGED <<listVars, isDrawing, startPoint, currentPath, textVars>>
          ELSE /\ selectedElement' = None
               /\ lastClickTime' = currentTime
               /\ UNCHANGED <<listVars, gestureVars, textVars>>
     ELSE IF currentTool = "fill"
     THEN /\ IF /\ clicked # 0
                /\ elements[clicked].type # "pen"
                /\ elements[clicked].type # "image"
             THEN updateElement(elements[clicked].id,
                                [filled |-> Some(TRUE),
                                 fillColor |-> Some(currentFillColor)])
             ELSE UNCHANGED listVars
          /\ UNCHANGED <<selectedElement, canvasVars>>
     ELSE /\ isDrawing' = TRUE
          /\ startPoint' = Some(coords)
          /\ currentPath' = IF currentTool \in {"pen", "eraser"}
                            THEN <<coords>> ELSE currentPath
          /\ UNCHANGED <<listVars, selectedElement, isDragging, dragOffset,
                         textVars, lastClickTime>>
  /\ UNCHANGED <<currentTool, styleVars, uploads, pickerOpen, crashed>>

\* the pointer moves to p on the canvas
handleMouseMove(p) ==
  /\ ~crashed /\ ~pickerOpen
  /\ ~coveredByEditor(p)
  /\ countEvent
  /\ UNCHANGED inputFile
  /\ timePasses
  /\ IF isDragging /\ IsSome(selectedElement)
     THEN /\ IF find(elements, Get(selectedElement)) # 0
             THEN updateElement(Get(selectedElement),
                                [x |-> p.x - dragOffset.x, y |-> p.y - dragOffset.y])
             ELSE UNCHANGED listVars
          /\ UNCHANGED currentPath
     ELSE IF isDrawing
     THEN IF currentTool \in {"pen", "eraser"}
          THEN /\ currentPath' = Append(currentPath, p)
               /\ IF currentTool = "eraser"
                  THEN eraseAtPosition(p.x, p.y)
                  ELSE UNCHANGED listVars
          ELSE UNCHANGED <<listVars, currentPath>>
     ELSE UNCHANGED <<listVars, currentPath>>
  /\ UNCHANGED <<currentTool, selectedElement, styleVars, isDrawing, startPoint,
                 isDragging, dragOffset, textVars, lastClickTime, uploads,
                 buttonDown, pickerOpen, crashed>>

\* mouse button released on the canvas at coords, at time t
handleMouseUp(coords, t) ==
  /\ ~crashed /\ buttonDown /\ ~pickerOpen
  /\ ~coveredByEditor(coords)
  /\ countEvent
  /\ UNCHANGED inputFile
  /\ atTime(t)
  /\ buttonDown' = FALSE
  /\ IF isDragging
     THEN /\ isDragging' = FALSE
          /\ UNCHANGED <<listVars, isDrawing, startPoint, currentPath>>
     ELSE IF ~isDrawing \/ ~IsSome(startPoint)
     THEN UNCHANGED <<listVars, isDrawing, startPoint, currentPath, isDragging>>
     ELSE /\ IF currentTool # "eraser"
             THEN addElement(drawnElement(t, currentTool, Get(startPoint),
                                          coords, currentPath, currentColor,
                                          currentStrokeWidth, isFilled,
                                          currentFillColor),
                             historyIndex)
             ELSE UNCHANGED listVars
          /\ isDrawing' = FALSE
          /\ startPoint' = None
          /\ currentPath' = <<>>
          /\ UNCHANGED isDragging
  /\ UNCHANGED <<currentTool, selectedElement, styleVars, dragOffset, textVars,
                 lastClickTime, uploads, pickerOpen, crashed>>

\* Enter or the confirm button of the editor, at time t
handleTextSubmit(text, t) ==
  /\ ~crashed /\ ~buttonDown /\ ~pickerOpen
  /\ countEvent
  /\ UNCHANGED inputFile
  /\ isEditingText
  /\ atTime(t)
  /\ IF trim(text) # <<>>
     THEN IF IsSome(editingTextId)
          THEN updateElement(Get(editingTextId), [text |-> Some(text)])
          ELSE addElement(textElement(t, textPosition, text, currentColor,
                                      currentStrokeWidth),
                          historyIndex)
     ELSE UNCHANGED listVars
  /\ isEditingText' = FALSE
  /\ editingTextId' = None
  /\ UNCHANGED <<currentTool, selectedElement, styleVars, gestureVars,
                 textPosition, lastClickTime, uploads, buttonDown, pickerOpen,
                 crashed>>

handleTextCancel ==
  /\ ~crashed /\ ~buttonDown /\ ~pickerOpen
  /\ countEvent
  /\ UNCHANGED inputFile
  /\ isEditingText
  /\ isEditingText' = FALSE
  /\ editingTextId' = None
  /\ timePasses
  /\ UNCHANGED <<ctxVars, gestureVars, textPosition, lastClickTime, uploads,
                 buttonDown, pickerOpen, crashed>>

(***************************************************************************)
(* Environment: the button is pressed or released off the canvas, where no *)
(* canvas handler runs.                                                    *)
(***************************************************************************)
pressOutside ==
  /\ ~crashed /\ ~pickerOpen
  /\ countEvent
  /\ UNCHANGED inputFile
  /\ ~buttonDown
  /\ buttonDown' = TRUE
  /\ timePasses
  /\ UNCHANGED <<ctxVars, canvasVars, uploads, pickerOpen, crashed>>

releaseOutside ==
  /\ ~crashed /\ ~pickerOpen
  /\ countEvent
  /\ UNCHANGED inputFile
  /\ buttonDown
  /\ buttonDown' = FALSE
  /\ timePasses
  /\ UNCHANGED <<ctxVars, canvasVars, uploads, pickerOpen, crashed>>

(***************************************************************************)
(* The events, with the inputs the environment draws.                      *)
(***************************************************************************)
toolSelected(tools) == \E tool \in tools : handleToolSelect(tool)
fileChosen(files) == \E file \in files : handleImageUpload(file)
uploadCompleted(steps) ==
  \E k \in DOMAIN uploads, d \in steps : imageLoaded(k, now + d)
mouseDown(points, steps) ==
  \E p \in points, d \in steps : handleMouseDown(p, now + d)
mouseMove(points) == \E p \in points : handleMouseMove(p)
mouseUp(points) == \E p \in points, d \in UserSteps : handleMouseUp(p, now + d)
textSubmitted(texts) ==
  \E text \in texts, d \in UserSteps : handleTextSubmit(text, now + d)
elementDeleted ==
  \/ \E el \in Range(elements) : deleteElement(el.id)
  \/ deleteElement(newId(0))
\* an update for an id that no element has
elementUpdated == updateElementCalled(newId(0), [erased |-> Some(TRUE)])

Next ==
  \/ toolSelected(ToolChoices)
  \/ fileChosen(Files)
  \/ dismissPicker
  \/ uploadCompleted(CallbackSteps)
  \/ undo
  \/ redo
  \/ mouseDown(Points, ClickSteps)
  \/ mouseMove(Points)
  \/ mouseUp(Points)
  \/ textSubmitted(Texts)
  \/ handleTextCancel
  \/ pressOutside
  \/ releaseOutside

Spec == Init /\ [][Next]_vars

\* fewer inputs, explored deeper: one point, one file, one text
RacePoints == {Pt(110, 110)}
ApiFiles == {File("a.png", 200, 400)}
ApiTools == {"select", "rectangle", "text", "eraser", "fill", "image"}
ApiTexts == {<<"h", "i">>}

\* the context also exports deleteElement, which no component calls, and
\* updateElement
NextApi ==
  \/ toolSelected(ApiTools)
  \/ fileChosen(ApiFiles)
  \/ dismissPicker
  \/ uploadCompleted(CallbackSteps)
  \/ undo
  \/ redo
  \/ mouseDown(RacePoints, ClickSteps)
  \/ mouseMove(RacePoints)
  \/ mouseUp(RacePoints)
  \/ textSubmitted(ApiTexts)
  \/ handleTextCancel
  \/ releaseOutside
  \/ elementDeleted
  \/ elementUpdated

InitApi == Mounted /\ budget = MaxApiEvents

SpecApi == InitApi /\ [][NextApi]_vars

InitRace == Mounted /\ budget = MaxRaceEvents

NextRace ==
  \/ toolSelected({"image"})
  \/ fileChosen(Files)
  \/ uploadCompleted({1})
  \/ undo
  \/ redo
  \/ mouseDown(RacePoints, {DoubleClickMs})
  \/ mouseMove(RacePoints)
  \/ mouseUp(RacePoints)

SpecRace == InitRace /\ [][NextRace]_vars

\* hit testing and arranging, explored with the pen tool and a third point
\* level with the first
HitTools == {"select", "rectangle", "pen", "eraser"}
HitPoints == {Pt(10, 10), Pt(110, 110), Pt(110, 10)}

InitHit == Mounted /\ budget = MaxHitEvents

NextHit ==
  \/ toolSelected(HitTools)
  \/ mouseDown(HitPoints, {DoubleClickMs})
  \/ mouseMove(HitPoints)
  \/ mouseUp(HitPoints)

SpecHit == InitHit /\ [][NextHit]_vars

\* the text editor, explored with one click position, two blank and two
\* non-blank texts, and an upload whose callback runs in the millisecond of
\* the event before it
TextTools == {"text", "select", "image"}
TextPoints == {Pt(10, 10)}
TextTexts == {<<>>, <<" ">>, <<"h", "i">>, <<"h">>}

InitText == Mounted /\ budget = MaxTextEvents

NextText ==
  \/ toolSelected(TextTools)
  \/ fileChosen(ApiFiles)
  \/ uploadCompleted({0})
  \/ undo
  \/ mouseDown(TextPoints, {1})
  \/ mouseUp(TextPoints)
  \/ releaseOutside
  \/ textSubmitted(TextTexts)
  \/ handleTextCancel

SpecText == InitText /\ [][NextText]_vars

\* image uploads, explored with files on both sides of the size limit
UploadFiles == {File("a.png", 200, 400), File("b.png", 400, 200),
                File("c.png", 300, 301)}
UploadTools == {"image", "rectangle"}

InitUpload == Mounted /\ budget = MaxUploadEvents

NextUpload ==
  \/ toolSelected(UploadTools)
  \/ fileChosen(UploadFiles)
  \/ dismissPicker
  \/ uploadCompleted(CallbackSteps)
  \/ undo
  \/ redo
  \/ mouseDown(RacePoints, {1})
  \/ mouseUp(RacePoints)

SpecUpload == InitUpload /\ [][NextUpload]_vars

(***************************************************************************)
(* Properties.                                                             *)
(***************************************************************************)
ids(els) == [i \in DOMAIN els |-> els[i].id]
UniqueIds(els) == \A i, j \in DOMAIN els : i # j => els[i].id # els[j].id
Last(q) == q[Len(q)]

\* C1: in every reachable state the cursor lies inside the history,
\* 0 <= historyIndex <= history.length - 1, and the live element list is the
\* snapshot under the cursor, history[historyIndex].
C1_CursorInsideHistory ==
  /\ 0 <= historyIndex
  /\ historyIndex <= Len(history) - 1
  /\ elements = history[historyIndex + 1]

\* C2: in every reachable state no two elements of the live list, and no two
\* elements of any history snapshot, have the same id.
C2_UniqueIds ==
  /\ UniqueIds(elements)
  /\ \A k \in DOMAIN history : UniqueIds(history[k])

\* C3: when the image-load callback of an upload runs while the cursor is at
\* the last snapshot, it removes no snapshot: history grows by exactly the
\* new list, appended after all the others, and the cursor points at it.
C3_UploadKeepsSnapshots ==
  [][(uploadCompleted(CallbackSteps) /\ historyIndex = Len(history) - 1)
       => /\ history' = Append(history, elements')
          /\ historyIndex' = Len(history') - 1]_vars


\* the live list as the components see it: undefined once a render threw on it
liveList == IF crashed THEN None ELSE Some(elements)

\* what undo and redo leave alone besides the history sequence
besideList == <<currentTool, selectedElement, styleVars, canvasVars, uploads,
                buttonDown, pickerOpen>>

\* C4: when historyIndex > 0, undo decrements historyIndex by exactly 1 and
\* sets the live list to history[historyIndex - 1]; when historyIndex <
\* history.length - 1, redo increments it by exactly 1 and sets the live list
\* to history[historyIndex + 1]; the history sequence is unchanged in both
\* cases, and when the guard is false the call changes nothing at all.
C4_UndoRedoMoveCursor ==
  [][/\ undo =>
          IF canUndo
          THEN /\ historyIndex' = historyIndex - 1
               /\ liveList' = snapshotAt(history, historyIndex - 1)
               /\ history' = history
               /\ UNCHANGED besideList
          ELSE UNCHANGED <<listVars, crashed, besideList>>
     /\ redo =>
          IF canRedo
          THEN /\ historyIndex' = historyIndex + 1
               /\ liveList' = snapshotAt(history, historyIndex + 1)
               /\ history' = history
               /\ UNCHANGED besideList
          ELSE UNCHANGED <<listVars, crashed, besideList>>]_vars

\* an undo has moved the cursor back to a snapshot that is now the live list,
\* and a redo is possible from it
C4_Undone ==
  /\ ~crashed
  /\ canRedo
  /\ elements = history[historyIndex + 1]
  /\ elements # history[historyIndex + 2]

\* the first n snapshots of h
firstSnapshots(h, n) == SubSeq(h, 1, Min(n, Len(h)))

\* a step in which addElement, updateElement or deleteElement ran: the
\* cursor advances and the step is not a redo
mutation == historyIndex' = historyIndex + 1 /\ ~redo

\* C5: after any addElement, updateElement or deleteElement performed while
\* the cursor is at position i, history is its former first i+1 snapshots
\* followed by the new list, the cursor is i+1 and canRedo is false.
C5_LinearHistory ==
  [][mutation =>
       /\ historyIndex + 1 <= Len(history)
       /\ history' = Append(firstSnapshots(history, historyIndex + 1), elements')
       /\ historyIndex' = historyIndex + 1
       /\ ~canRedo']_vars

\* p is a prefix of q
IsPrefix(p, q) == Len(p) <= Len(q) /\ p = SubSeq(q, 1, Len(p))

\* C6: the canvas gestures, text editing and image upload never remove or
\* reorder an element: the ids of the previous live list are a prefix of the
\* ids of the new one; and only undo can make the live list shorter.
C6_AppendOnly ==
  [][/\ (~undo /\ ~redo) => IsPrefix(ids(elements), ids(elements'))
     /\ ~undo => Len(elements') >= Len(elements)]_vars

\* C7: in every reachable state every element of the live list has a
\* drawable type tag, never select, eraser or fill.
C7_DrawableTypes ==
  \A i \in DOMAIN elements : elements[i].type \in DrawableTypes

\* the eraser, held down, is over an element at p
erasing(p) ==
  /\ ~(isDragging /\ IsSome(selectedElement))
  /\ isDrawing
  /\ currentTool = "eraser"
  /\ getElementAtPosition(elements, p.x, p.y) # 0
  /\ handleMouseMove(p)

\* C8: erasing an element sets only its erased flag to true: it stays at the
\* same index with every other field unchanged, and every other element of
\* the list is unchanged.
C8_EraserSoftDelete ==
  [][\A p \in Points :
       erasing(p) =>
         elements' = [elements EXCEPT
                        ![getElementAtPosition(elements, p.x, p.y)].erased =
                          Some(TRUE)]]_vars

\* C9: where canUndo holds, undo followed by redo restores the live list, the
\* history and the cursor; where canRedo holds, redo followed by undo does.
C9_UndoRedoInverse ==
  ~crashed =>
    /\ canUndo => afterRedo(afterUndo(listState)) = listState
    /\ canRedo => afterUndo(afterRedo(listState)) = listState

\* the handler steps that call addElement, updateElement or deleteElement
\* through the closure of the latest render
dragMoves ==
  /\ isDragging /\ IsSome(selectedElement)
  /\ find(elements, Get(selectedElement)) # 0
  /\ \E p \in Points : handleMouseMove(p)
erases == \E p \in Points : erasing(p)
fills ==
  /\ currentTool = "fill"
  /\ \E p \in Points, d \in ClickSteps :
       /\ getElementAtPosition(elements, p.x, p.y) # 0
       /\ elements[getElementAtPosition(elements, p.x, p.y)].type \notin {"pen", "image"}
       /\ handleMouseDown(p, now + d)
draws ==
  /\ ~isDragging /\ isDrawing /\ IsSome(startPoint)
  /\ currentTool # "eraser"
  /\ mouseUp(Points)
submits ==
  /\ isEditingText
  /\ \E text \in Texts : trim(text) # <<>> /\ textSubmitted({text})
callsMutator ==
  dragMoves \/ erases \/ fills \/ draws \/ submits \/ elementDeleted \/ elementUpdated

\* C10: every call of addElement, updateElement or deleteElement appends
\* exactly one full-list snapshot, after the snapshots up to the historyIndex
\* its closure holds, and advances the cursor by one, even when the list
\* content does not change; so every mouse-move of a drag records a snapshot.
C10_NoUndoMerging ==
  [][/\ callsMutator =>
          /\ history' = Append(firstSnapshots(history, historyIndex + 1), elements')
          /\ historyIndex' = historyIndex + 1
     /\ \A k \in DOMAIN uploads :
          (\E d \in CallbackSteps : imageLoaded(k, now + d)) =>
            /\ history' = Append(firstSnapshots(history, uploads[k].historyIndex + 1),
                                 elements')
            /\ historyIndex' = historyIndex + 1]_vars

\* a drag is under way whose last mouse-move left the element where it was,
\* and the history holds the same list twice
C10_SameListTwice ==
  /\ isDragging /\ buttonDown
  /\ Len(history) >= 2
  /\ Last(history) = elements
  /\ history[Len(history) - 1] = elements

\* the points at which hit testing is observed
ProbePoints == {Pt(px, py) : px \in {10, 60, 110, 115}, py \in {10, 60, 110, 115}}

\* el contains the point (x, y): a text inside its text box, a pen stroke
\* within PenHitRadius of one of its points, any other element inside the
\* rectangle x..x+width, y..y+height
containsPoint(el, x, y) ==
  IF el.type = "text"
  THEN /\ IsSome(el.text)
       /\ x >= el.x
       /\ x <= el.x + CharWidth * maxLineLength(Get(el.text))
       /\ y >= el.y
       /\ 10 * y <= 10 * el.y + 12 * fontSizeOf(el) * lineCount(Get(el.text))
  ELSE IF el.type = "pen"
  THEN /\ IsSome(el.points)
       /\ \E i \in DOMAIN Get(el.points) :
            (x - Get(el.points)[i].x) * (x - Get(el.points)[i].x)
              + (y - Get(el.points)[i].y) * (y - Get(el.points)[i].y)
              < PenHitRadius * PenHitRadius
  ELSE /\ IsSome(el.width) /\ IsSome(el.height)
       /\ x >= el.x /\ x <= el.x + Get(el.width)
       /\ y >= el.y /\ y <= el.y + Get(el.height)

\* the indices of the non-erased elements that contain (x, y)
liveAt(els, x, y) ==
  {i \in DOMAIN els : ~isErased(els[i]) /\ containsPoint(els[i], x, y)}

\* the greatest of them, 0 when there is none
topmostAt(els, x, y) ==
  IF liveAt(els, x, y) = {} THEN 0
  ELSE CHOOSE i \in liveAt(els, x, y) : \A j \in liveAt(els, x, y) : j <= i

\* C11: for every point, getElementAtPosition returns the element with the
\* greatest list index among the non-erased elements that contain the point,
\* and null when there is none.
C11_TopmostHit ==
  \A q \in ProbePoints :
    getElementAtPosition(elements, q.x, q.y) = topmostAt(elements, q.x, q.y)

Max(a, b) == IF a > b THEN a ELSE b

\* (x, y) lies in the rectangle spanned by the start and the end point of the
\* drag that created el
inSpan(el, x, y) ==
  /\ Min(el.x, el.x + Get(el.width)) <= x
  /\ x <= Max(el.x, el.x + Get(el.width))
  /\ Min(el.y, el.y + Get(el.height)) <= y
  /\ y <= Max(el.y, el.y + Get(el.height))

\* no later non-erased element of els is hit at (x, y)
uncoveredAt(els, i, x, y) ==
  \A j \in DOMAIN els :
    j > i => isErased(els[j]) \/ ~hitsElement(els[j], x, y)

\* C12: for a non-erased shape or arrow with non-zero extent in both axes,
\* every point inside the rectangle spanned by the start and end points of
\* its drag hits that element when no later element covers the point,
\* whichever direction the drag went in.
C12_AnyDragDirection ==
  \A i \in DOMAIN elements :
    (/\ elements[i].type \in ShapeTools \cup {"arrow"}
     /\ ~isErased(elements[i])
     /\ hasExtent(elements[i]))
    => \A q \in ProbePoints :
         (inSpan(elements[i], q.x, q.y) /\ uncoveredAt(elements, i, q.x, q.y))
         => getElementAtPosition(elements, q.x, q.y) = i

\* the pointer, dragging the selected element, moves to p
dragging(p) ==
  /\ isDragging /\ IsSome(selectedElement)
  /\ find(elements, Get(selectedElement)) # 0
  /\ handleMouseMove(p)

\* C13: dragging a selected element so that its position changes by (dx, dy)
\* shifts the region in which it is hit-tested by exactly (dx, dy), whatever
\* its type (shape, text, image, pen stroke), and changes no other element.
C13_DragShiftsHitRegion ==
  [][\A p \in HitPoints :
       dragging(p) =>
         LET k == find(elements, Get(selectedElement))
             dx == (p.x - dragOffset.x) - elements[k].x
             dy == (p.y - dragOffset.y) - elements[k].y
         IN /\ Len(elements') = Len(elements)
            /\ \A q \in ProbePoints :
                 hitsElement(elements'[k], q.x + dx, q.y + dy)
                   = hitsElement(elements[k], q.x, q.y)
            /\ \A j \in DOMAIN elements : j # k => elements'[j] = elements[j]]_vars

\* C14: in every reachable state an element of type image has imageData and
\* imageElement set, as the elements that uploadImage creates have.
C14_ImagesCarryData ==
  \A i \in DOMAIN elements :
    elements[i].type = "image"
    => IsSome(elements[i].imageData) /\ IsSome(elements[i].imageElement)

\* the list state after n undos in a row, stopping where the live list has
\* become undefined
RECURSIVE undoTimes(_, _)
undoTimes(s, n) ==
  IF n = 0 \/ ~IsSome(s.elements) THEN s ELSE undoTimes(afterUndo(s), n - 1)

\* C15: from any reachable state, historyIndex undos in a row reach a state
\* in which canUndo is false and the live list is empty; history[0] is the
\* empty list in every reachable state.
C15_UndoToEmpty ==
  ~crashed =>
    /\ history[1] = <<>>
    /\ undoTimes(listState, historyIndex).historyIndex = 0
    /\ undoTimes(listState, historyIndex).elements = Some(<<>>)

\* the pointer moves to p while an eraser gesture is in progress
erasingGesture(p) ==
  /\ isDrawing
  /\ currentTool = "eraser"
  /\ handleMouseMove(p)

\* C16: mouse-up with the eraser tool leaves the length of the live list and
\* the history unchanged; a mouse-move of an eraser gesture marks as erased
\* only the topmost non-erased element at the pointer position and pushes a
\* snapshot, and changes neither list nor history when there is none.
C16_EraserGesture ==
  [][/\ (currentTool = "eraser" /\ mouseUp(Points))
          => Len(elements') = Len(elements) /\ history' = history
     /\ \A p \in Points :
          erasingGesture(p) =>
            IF getElementAtPosition(elements, p.x, p.y) # 0
            THEN /\ elements' = [elements EXCEPT
                                   ![getElementAtPosition(elements, p.x, p.y)].erased =
                                     Some(TRUE)]
                 /\ historyIndex' = historyIndex + 1
                 /\ Last(history') = elements'
            ELSE UNCHANGED listVars]_vars

\* the button is pressed at p, at time t, with the fill tool
fillClick(p, t) ==
  /\ currentTool = "fill"
  /\ handleMouseDown(p, t)

\* C17: a mouse-down with the fill tool on a point whose topmost non-erased
\* element is neither a pen stroke nor an image sets that element's filled to
\* true and its fillColor to the current fill colour and changes no other
\* field and no other element; elsewhere it changes neither the list nor the
\* history; it never starts a drawing or dragging gesture.
C17_FillFrame ==
  [][\A p \in Points, d \in ClickSteps :
       fillClick(p, now + d) =>
         LET k == getElementAtPosition(elements, p.x, p.y) IN
         /\ IF k # 0 /\ elements[k].type \notin {"pen", "image"}
            THEN elements' = [elements EXCEPT
                                ![k].filled = Some(TRUE),
                                ![k].fillColor = Some(currentFillColor)]
            ELSE UNCHANGED listVars
         /\ UNCHANGED gestureVars]_vars

\* the live list after updateElement(id, updates), where updates names the
\* fields in fields: same length and order, elements with another id
\* unchanged, fields not named unchanged, nothing changed when no id matches
updateFrame(id, fields) ==
  /\ Len(elements') = Len(elements)
  /\ \A i \in DOMAIN elements :
       /\ elements[i].id # id => elements'[i] = elements[i]
       /\ \A f \in DOMAIN elements[i] \ fields : elements'[i][f] = elements[i][f]
  /\ (\A i \in DOMAIN elements : elements[i].id # id) => elements' = elements

\* a text edited in the editor is submitted
textEdited(text) ==
  /\ isEditingText /\ IsSome(editingTextId)
  /\ trim(text) # <<>>
  /\ textSubmitted({text})

\* C18: updateElement(id, updates) keeps the length and order of the live
\* list, leaves every element with a different id unchanged, keeps every
\* field of a matching element that updates does not name, and leaves the
\* list content unchanged when no element has that id.
C18_UpdateFrame ==
  [][/\ \A p \in Points :
          /\ dragging(p) => updateFrame(Get(selectedElement), {"x", "y"})
          /\ erasing(p) =>
               updateFrame(elements[getElementAtPosition(elements, p.x, p.y)].id,
                           {"erased"})
          /\ \A d \in ClickSteps :
               (/\ getElementAtPosition(elements, p.x, p.y) # 0
                /\ elements[getElementAtPosition(elements, p.x, p.y)].type
                     \notin {"pen", "image"}
                /\ fillClick(p, now + d))
               => updateFrame(elements[getElementAtPosition(elements, p.x, p.y)].id,
                              {"filled", "fillColor"})
     /\ \A text \in Texts :
          textEdited(text) => updateFrame(Get(editingTextId), {"text"})
     /\ elementUpdated => updateFrame(newId(0), {"erased"})]_vars

\* an uploaded image has been erased and is otherwise as uploadImage made it
C18_ErasedImage ==
  \E i \in DOMAIN elements, file \in Files :
    /\ isErased(elements[i])
    /\ [elements[i] EXCEPT !.erased = None]
         = [imageElementOf(0, file, currentColor, currentStrokeWidth)
              EXCEPT !.id = elements[i].id]

\* the indices of the elements that deleteElement(id) keeps
keptAfterDelete(id) == {i \in DOMAIN elements : elements[i].id # id}

\* the effect of deleteElement(id) on the list, the history and the selection
deleteEffect(id) ==
  /\ Len(elements') = Cardinality(keptAfterDelete(id))
  /\ \A i \in keptAfterDelete(id) :
       elements'[Cardinality({j \in keptAfterDelete(id) : j <= i})] = elements[i]
  /\ history' = Append(firstSnapshots(history, historyIndex + 1), elements')
  /\ historyIndex' = historyIndex + 1
  /\ selectedElement' = None

\* C19: deleteElement(id) removes from the live list exactly the elements
\* whose id equals id, keeps the others in their relative order, pushes the
\* resulting list as a new snapshot, and sets selectedElement to null.
C19_DeleteElement ==
  [][\A id \in {elements[i].id : i \in DOMAIN elements} \cup {newId(0)} :
       deleteElement(id) => deleteEffect(id)]_vars

\* the last snapshot is an empty list pushed after a non-empty one: the last
\* element has been deleted
C19_DeletedLast ==
  /\ elements = <<>>
  /\ selectedElement = None
  /\ Len(history) >= 3
  /\ historyIndex = Len(history) - 1
  /\ Last(history) = <<>>
  /\ history[Len(history) - 1] # <<>>

\* C20: in every reachable state selectedElement is null or the id of an
\* element that is in the live list and not erased.
C20_SelectionInList ==
  IsSome(selectedElement) =>
    \E i \in DOMAIN elements :
      elements[i].id = Get(selectedElement) /\ ~isErased(elements[i])

(***************************************************************************)
(* C21: the two gesture modes are mutually exclusive: in every reachable   *)
(* state isDrawing and isDragging are not both true, and isDrawing true    *)
(* implies that startPoint is not null.                                    *)
(***************************************************************************)
C21_GestureModesExclusive ==
  /\ ~(isDrawing /\ isDragging)
  /\ isDrawing => IsSome(startPoint)

(***************************************************************************)
(* C22: elements change only while a mouse button is held: a mouse-move    *)
(* over the canvas when no button is down leaves the live element list and *)
(* the history unchanged, and the mouse-up that ends a drag adds no        *)
(* element and no snapshot.                                                *)
(***************************************************************************)
C22_ChangesNeedButton ==
  [][/\ (~buttonDown /\ \E p \in Points : handleMouseMove(p))
          => UNCHANGED <<elements, history>>
     /\ (isDragging /\ \E p \in Points, d \in UserSteps : handleMouseUp(p, now + d))
          => UNCHANGED <<elements, history, historyIndex>>]_vars

\* Enter or the confirm button of the editor with a text that is not blank
submitsText(text) ==
  /\ trim(text) # <<>>
  /\ \E d \in UserSteps : handleTextSubmit(text, now + d)

\* the indices of the elements that the step changes
changedAt == {i \in DOMAIN elements : i \in DOMAIN elements' => elements'[i] # elements[i]}

(***************************************************************************)
(* C23: submitting non-blank text has exactly one effect.  If the editor   *)
(* was opened on an existing text element (editingTextId set) only that    *)
(* element's text field changes and the list length is unchanged;          *)
(* otherwise exactly one new element of type text is appended at the       *)
(* position clicked with the text tool, with fontSize 16, fontFamily Arial *)
(* and the current stroke colour.  In both cases the editor closes and     *)
(* editingTextId becomes null.                                             *)
(***************************************************************************)
C23_TextSubmit ==
  [][\A text \in TextTexts :
       submitsText(text) =>
         /\ IF IsSome(editingTextId)
            THEN /\ Len(elements') = Len(elements)
                 /\ Cardinality(changedAt) <= 1
                 /\ \A i \in DOMAIN elements :
                      IF elements[i].id = Get(editingTextId)
                      THEN elements'[i] = [elements[i] EXCEPT !.text = Some(text)]
                      ELSE elements'[i] = elements[i]
            ELSE /\ Len(elements') = Len(elements) + 1
                 /\ SubSeq(elements', 1, Len(elements)) = elements
                 /\ Last(elements').type = "text"
                 /\ Last(elements').x = textPosition.x
                 /\ Last(elements').y = textPosition.y
                 /\ Last(elements').text = Some(text)
                 /\ Last(elements').fontSize = Some(DefaultFontSize)
                 /\ Last(elements').fontFamily = Some("Arial")
                 /\ Last(elements').color = currentColor
         /\ ~isEditingText'
         /\ editingTextId' = None]_vars

\* the text is empty or holds white space only
blank(text) == \A i \in DOMAIN text : text[i] \in Whitespace

\* Enter or the confirm button with a blank text, Escape or the cancel button
rejectsText ==
  \/ \E text \in TextTexts, d \in UserSteps :
       blank(text) /\ handleTextSubmit(text, now + d)
  \/ handleTextCancel

(***************************************************************************)
(* C24: rejected text input leaves the drawing untouched.  Submitting text *)
(* that is empty or only white space, or cancelling the text editor,       *)
(* changes neither the live element list nor the history nor the cursor,   *)
(* whether the editor was opened for a new text or for an existing         *)
(* element, and closes the editor with editingTextId reset to null.        *)
(***************************************************************************)
C24_RejectedText ==
  [][rejectsText =>
       /\ UNCHANGED <<elements, history, historyIndex>>
       /\ ~isEditingText'
       /\ editingTextId' = None]_vars

\* the editor that a double-click opened on the only element, a text, has
\* been closed, and the one snapshot pushed is the one that created the text
C24_EditRejected ==
  /\ ~isEditingText
  /\ editingTextId = None
  /\ IsSome(selectedElement)
  /\ lastClickTime = 0
  /\ Len(elements) = 1
  /\ elements[1].type = "text"
  /\ elements[1].id = Get(selectedElement)
  /\ Len(history) = 2
  /\ historyIndex = 1

(***************************************************************************)
(* C25: a completed image upload of an image with natural size (w, h)      *)
(* appends exactly one element of type image at x = 100, y = 100 with      *)
(* width = min(w, 300) and height = min(h, 300), each axis capped          *)
(* independently, and choosing a file in the picker sets the current tool  *)
(* to select.                                                              *)
(***************************************************************************)
C25_UploadedImage ==
  [][/\ \A k \in DOMAIN uploads, d \in CallbackSteps :
          imageLoaded(k, now + d) =>
            /\ Len(elements') = Len(elements) + 1
            /\ SubSeq(elements', 1, Len(elements)) = elements
            /\ Last(elements').type = "image"
            /\ Last(elements').x = 100
            /\ Last(elements').y = 100
            /\ Last(elements').width = Some(Min(uploads[k].file.width, 300))
            /\ Last(elements').height = Some(Min(uploads[k].file.height, 300))
     /\ \A file \in UploadFiles :
          handleImageUpload(file) => currentTool' = "select"]_vars

\* b.png, 400 by 200, has been loaded: its width is capped, its height is not
C25_WideImageLoaded ==
  /\ elements # <<>>
  /\ Last(elements).type = "image"
  /\ Last(elements).imageElement = Some([width |-> 400, height |-> 200])
  /\ Last(elements).width = Some(300)
  /\ Last(elements).height = Some(200)
  /\ currentTool = "select"

=============================================================================
